---- MODULE Spec2Model ----
(***************************************************************************)
(* Model of the admin API server of C0llecti0n (admin-server.mjs): the     *)
(* schema validator, the id generator and the request handler working on   *)
(* the four category files.                                                *)
(*                                                                         *)
(* JSON values are records [t, n, s]: t is the JavaScript type, n the      *)
(* number (or 0/1 for a boolean), s the string.  A JSON object is a        *)
(* function from Fields to values in which an absent key holds Undef       *)
(* (data[key] === undefined exactly when a parsed JSON object lacks key).  *)
(***************************************************************************)
EXTENDS Integers, Sequences, FiniteSets, TLC

VARIABLES
    ADMIN_KEY,  \* process.env.ADMIN_KEY: Undef when unset, else a string value
    files,      \* the category files: category -> sequence of JSON objects
    req,        \* the request handled last
    res,        \* the response to it
    before,     \* the category files as they were when that request arrived
    retired,    \* history: category -> ids of the records deleted in this run
    vType,      \* validator harness: the category name given to validateItem
    vData,      \* validator harness: the parsed payload given to validateItem
    vResult,    \* validator harness: what validateItem returned
    uItems,     \* filters.ts harness: the items array given to the call
    uFilters,   \* filters.ts harness: the FilterState given to filterItems
    uMapping,   \* filters.ts harness: the dimensions that have a field accessor
    uSort,      \* filters.ts harness: the sort value given to sortItems
    uFrom,      \* filters.ts harness: the sort value that produced uItems, or ""
    uOut,       \* filters.ts harness: <<>>, or the call made and what it returned
    page,       \* the FilterSystem of a catalog page: its fields and the DOM it owns
    pageEvent,  \* the event the FilterSystem handled last
    pagePrev,   \* `page` as it was when that event arrived
    pageLoaded, \* history: the items array as init() loaded it
    race,       \* overlapping requests: handler -> where it stands and what it holds
    lastWriter, \* overlapping requests: category -> the handler that wrote it last
    limiter,    \* a rate limiter: maxRequests, windowMs and its `requests` array
    clock,      \* Date.now()
    granted,    \* history: the timestamps of the canProceed calls that returned true
    lastCall,   \* the canProceed call made last: its time, its result, the array before
    html        \* security.ts harness: a string, escaped, and decoded again

serverVars == <<ADMIN_KEY, files, req, res, before, retired>>
validatorVars == <<vType, vData, vResult>>
utilVars == <<uItems, uFilters, uMapping, uSort, uFrom, uOut>>
pageVars == <<page, pageEvent, pagePrev, pageLoaded>>
raceVars == <<race, lastWriter>>
securityVars == <<limiter, clock, granted, lastCall, html>>
vars ==
    <<ADMIN_KEY, files, req, res, before, retired, vType, vData, vResult,
      uItems, uFilters, uMapping, uSort, uFrom, uOut,
      page, pageEvent, pagePrev, pageLoaded, race, lastWriter,
      limiter, clock, granted, lastCall, html>>

----------------------------------------------------------------------------
(* JSON / JavaScript values *)

Undef == [t |-> "undefined", n |-> 0, s |-> ""]
Null == [t |-> "null", n |-> 0, s |-> ""]
Num(k) == [t |-> "number", n |-> k, s |-> ""]
Str(x) == [t |-> "string", n |-> 0, s |-> x]
Bool(b) == [t |-> "boolean", n |-> (IF b THEN 1 ELSE 0), s |-> ""]

\* !value
Falsy(v) ==
    \/ v.t \in {"undefined", "null"}
    \/ v.t = "string" /\ v.s = ""
    \/ v.t = "number" /\ v.n = 0
    \/ v.t = "boolean" /\ v.n = 0

Digits == {"0", "1", "2", "3", "4", "5", "6", "7", "8", "9"}

CharAt(s, i) == SubSeq(s, i, i)

DigitVal(c) ==
    CASE c = "0" -> 0 [] c = "1" -> 1 [] c = "2" -> 2 [] c = "3" -> 3
      [] c = "4" -> 4 [] c = "5" -> 5 [] c = "6" -> 6 [] c = "7" -> 7
      [] c = "8" -> 8 [] c = "9" -> 9

AllDigits(s) == \A i \in 1..Len(s) : CharAt(s, i) \in Digits

RECURSIVE ParseDigits(_)
ParseDigits(s) ==
    IF s = "" THEN 0
    ELSE ParseDigits(SubSeq(s, 1, Len(s) - 1)) * 10 + DigitVal(CharAt(s, Len(s)))

\* Number(value): [nan, n].  Strings are decimal integers with an optional
\* sign (the empty string is 0); every other string is NaN.
ToNumber(v) ==
    CASE v.t = "number" -> [nan |-> FALSE, n |-> v.n]
      [] v.t = "boolean" -> [nan |-> FALSE, n |-> v.n]
      [] v.t = "null" -> [nan |-> FALSE, n |-> 0]
      [] v.t = "undefined" -> [nan |-> TRUE, n |-> 0]
      [] v.t = "string" ->
            IF v.s = "" THEN [nan |-> FALSE, n |-> 0]
            ELSE IF AllDigits(v.s) THEN [nan |-> FALSE, n |-> ParseDigits(v.s)]
            ELSE IF Len(v.s) > 1 /\ Head(v.s) = "-" /\ AllDigits(Tail(v.s))
                 THEN [nan |-> FALSE, n |-> 0 - ParseDigits(Tail(v.s))]
            ELSE [nan |-> TRUE, n |-> 0]

Letters ==
    {"a", "b", "c", "d", "e", "f", "g", "h", "i", "j", "k", "l", "m", "n", "o",
     "p", "q", "r", "s", "t", "u", "v", "w", "x", "y", "z"}

SpecialSchemes == {"http", "https", "ftp", "ws", "wss", "file"}

\* new URL(value) succeeds: the string opens with a scheme and a colon, and a
\* special scheme (http, https, ...) is followed by a host.
UrlParses(s) ==
    \E i \in 2..Len(s) :
        /\ CharAt(s, i) = ":"
        /\ CharAt(s, 1) \in Letters
        /\ \A j \in 2..(i - 1) : CharAt(s, j) \in Letters \cup Digits \cup {"+", ".", "-"}
        /\ SubSeq(s, 1, i - 1) \in SpecialSchemes =>
              \E j \in (i + 1)..Len(s) : CharAt(s, j) # "/"

\* !isNaN(new Date(value).getTime()) for a string: an ISO date YYYY-MM-DD
\* with month 1..12 and day 1..31, or a four-digit year.
DateParses(s) ==
    \/ Len(s) = 4 /\ AllDigits(s)
    \/ /\ Len(s) = 10
       /\ AllDigits(SubSeq(s, 1, 4))
       /\ CharAt(s, 5) = "-"
       /\ AllDigits(SubSeq(s, 6, 7))
       /\ CharAt(s, 8) = "-"
       /\ AllDigits(SubSeq(s, 9, 10))
       /\ ParseDigits(SubSeq(s, 6, 7)) \in 1..12
       /\ ParseDigits(SubSeq(s, 9, 10)) \in 1..31

----------------------------------------------------------------------------
(* Validation rules and schemas *)

YearMin == 1000
YearMax == 2100
RatingMin == 1
RatingMax == 10

Fields ==
    {"id", "title", "author", "artist", "director", "publisher", "country", "year",
     "status", "platform", "cover", "addedDate", "rating", "genre", "notes"}

EmptyObject == [f \in Fields |-> Undef]

\* A rule returns null (here <<>>) or one message (here <<message>>).
ruleRequired(value, fieldName) ==
    IF value.t \in {"undefined", "null"} \/ (value.t = "string" /\ value.s = "")
    THEN <<fieldName \o " is required">>
    ELSE <<>>

ruleString(value, fieldName) ==
    IF value.t \notin {"undefined", "null", "string"}
    THEN <<fieldName \o " must be a string">>
    ELSE <<>>

ruleNumber(value, fieldName, min, max) ==
    IF value.t \in {"undefined", "null"} THEN <<>>
    ELSE LET num == ToNumber(value) IN
         IF num.nan THEN <<fieldName \o " must be a number">>
         ELSE IF num.n < min THEN <<fieldName \o " must be at least " \o ToString(min)>>
         ELSE IF num.n > max THEN <<fieldName \o " must be at most " \o ToString(max)>>
         ELSE <<>>

\* value.startsWith is not a function for a truthy non-string: TypeError.
ruleUrl(value, fieldName) ==
    IF Falsy(value) THEN [threw |-> FALSE, errs |-> <<>>]
    ELSE IF value.t # "string" THEN [threw |-> TRUE, errs |-> <<>>]
    ELSE IF Head(value.s) = "/" THEN [threw |-> FALSE, errs |-> <<>>]
    ELSE IF UrlParses(value.s) THEN [threw |-> FALSE, errs |-> <<>>]
    ELSE [threw |-> FALSE, errs |-> <<fieldName \o " must be a valid URL or path">>]

ruleDate(value, fieldName) ==
    IF Falsy(value) THEN <<>>
    ELSE IF value.t = "string" /\ ~DateParses(value.s)
         THEN <<fieldName \o " must be a valid date (YYYY-MM-DD)">>
    ELSE <<>>

RECURSIVE Join(_)
Join(values) ==
    IF Len(values) = 0 THEN ""
    ELSE IF Len(values) = 1 THEN values[1]
    ELSE values[1] \o ", " \o Join(Tail(values))

Includes(values, x) == \E i \in 1..Len(values) : values[i] = x

ruleEnum(value, fieldName, allowedValues) ==
    IF Falsy(value) THEN <<>>
    ELSE IF ~(value.t = "string" /\ Includes(allowedValues, value.s))
         THEN <<fieldName \o " must be one of: " \o Join(allowedValues)>>
    ELSE <<>>

FString(name, isRequired) ==
    [name |-> name, required |-> isRequired, type |-> "string", min |-> 0, max |-> 0, values |-> <<>>]
FNumber(name, lo, hi) ==
    [name |-> name, required |-> FALSE, type |-> "number", min |-> lo, max |-> hi, values |-> <<>>]
FUrl(name, isRequired) ==
    [name |-> name, required |-> isRequired, type |-> "url", min |-> 0, max |-> 0, values |-> <<>>]
FDate(name) ==
    [name |-> name, required |-> FALSE, type |-> "date", min |-> 0, max |-> 0, values |-> <<>>]
FEnum(name, allowed) ==
    [name |-> name, required |-> FALSE, type |-> "enum", min |-> 0, max |-> 0, values |-> allowed]

BookStatus == <<"reading", "completed", "want-to-read">>
WatchStatus == <<"watching", "completed", "want-to-watch">>

BooksSchema ==
    << FString("title", TRUE), FString("author", TRUE), FString("publisher", FALSE),
       FString("country", FALSE), FNumber("year", YearMin, YearMax),
       FEnum("status", BookStatus), FString("platform", FALSE), FUrl("cover", FALSE),
       FDate("addedDate"), FNumber("rating", RatingMin, RatingMax), FString("notes", FALSE) >>

VideoSchema ==
    << FString("title", TRUE), FString("director", FALSE), FString("country", FALSE),
       FNumber("year", YearMin, YearMax), FEnum("status", WatchStatus),
       FUrl("cover", TRUE), FDate("addedDate"), FNumber("rating", RatingMin, RatingMax),
       FString("genre", FALSE), FString("notes", FALSE) >>

MusicSchema ==
    << FString("title", TRUE), FString("artist", TRUE), FUrl("cover", TRUE),
       FNumber("year", YearMin, YearMax), FString("country", FALSE), FDate("addedDate"),
       FNumber("rating", RatingMin, RatingMax), FString("genre", FALSE),
       FString("notes", FALSE) >>

Types == {"books", "movies", "series", "music"}

\* Names every object inherits from Object.prototype: FIELD_SCHEMAS[name] and
\* DATA_FILES[name] are then a truthy value with no entries of its own.
InheritedNames == {"constructor", "toString"}

\* FIELD_SCHEMAS[type]: [found, fields]
FIELD_SCHEMAS(type) ==
    CASE type = "books" -> [found |-> TRUE, fields |-> BooksSchema]
      [] type = "movies" -> [found |-> TRUE, fields |-> VideoSchema]
      [] type = "series" -> [found |-> TRUE, fields |-> VideoSchema]
      [] type = "music" -> [found |-> TRUE, fields |-> MusicSchema]
      [] type \in InheritedNames -> [found |-> TRUE, fields |-> <<>>]
      [] OTHER -> [found |-> FALSE, fields |-> <<>>]

\* The "skip further validation if value is empty and not required" test.
SkipsTypeCheck(value, rules) == Falsy(value) /\ ~rules.required

\* One pass of the loop body of validateItem: [threw, errs].
checkField(rules, value) ==
    LET error == IF rules.required THEN ruleRequired(value, rules.name) ELSE <<>> IN
    IF error # <<>> THEN [threw |-> FALSE, errs |-> error]
    ELSE IF SkipsTypeCheck(value, rules) THEN [threw |-> FALSE, errs |-> <<>>]
    ELSE CASE rules.type = "string" ->
                [threw |-> FALSE, errs |-> ruleString(value, rules.name)]
           [] rules.type = "number" ->
                [threw |-> FALSE, errs |-> ruleNumber(value, rules.name, rules.min, rules.max)]
           [] rules.type = "url" -> ruleUrl(value, rules.name)
           [] rules.type = "date" ->
                [threw |-> FALSE, errs |-> ruleDate(value, rules.name)]
           [] rules.type = "enum" ->
                [threw |-> FALSE, errs |-> ruleEnum(value, rules.name, rules.values)]

RECURSIVE checkFields(_, _)
checkFields(schema, obj) ==
    IF schema = <<>> THEN [threw |-> FALSE, errs |-> <<>>]
    ELSE LET first == checkField(Head(schema), obj[Head(schema).name])
             rest == checkFields(Tail(schema), obj)
         IN IF first.threw \/ rest.threw THEN [threw |-> TRUE, errs |-> <<>>]
            ELSE [threw |-> FALSE, errs |-> first.errs \o rest.errs]

\* A parsed request body: a JSON object or JSON null.
JsonObject(o) == [json |-> "object", o |-> o]
JsonNull == [json |-> "null", o |-> EmptyObject]

\* return { isValid: errors.length === 0, errors }, unless the loop threw
ValidationResult(r) ==
    IF r.threw THEN [threw |-> TRUE, isValid |-> FALSE, errors |-> <<>>]
    ELSE [threw |-> FALSE, isValid |-> Len(r.errs) = 0, errors |-> r.errs]

validateWith(schema, type, data) ==
    IF ~schema.found
    THEN [threw |-> FALSE, isValid |-> FALSE, errors |-> <<"Unknown data type: " \o type>>]
    ELSE IF data.json = "null"   \* Object.keys(null)
    THEN [threw |-> TRUE, isValid |-> FALSE, errors |-> <<>>]
    ELSE ValidationResult(checkFields(schema.fields, data.o))

\* validateItem(type, data): [threw, isValid, errors]; threw = a TypeError left it.
validateItem(type, data) == validateWith(FIELD_SCHEMAS(type), type, data)

----------------------------------------------------------------------------
(* Record store gateway *)

\* The id prefix of a category (generateId): every category but the first three
\* gets "music".
Prefix(type) ==
    IF type = "books" THEN "book"
    ELSE IF type = "movies" THEN "movie"
    ELSE IF type = "series" THEN "series"
    ELSE "music"

\* id.match(new RegExp(`${prefix}-(\d+)`)): the leftmost place where the
\* prefix, a dash and a digit stand, with the longest run of digits from there;
\* [matched, digits].
RegExpMatch(id, prefix) ==
    LET p == prefix \o "-"
        starts == {i \in 1..(Len(id) - Len(p)) :
                      /\ SubSeq(id, i, i + Len(p) - 1) = p
                      /\ CharAt(id, i + Len(p)) \in Digits}
    IN IF starts = {} THEN [matched |-> FALSE, digits |-> ""]
       ELSE LET i == CHOOSE k \in starts : \A m \in starts : k <= m
                d == i + Len(p)
                e == CHOOSE k \in d..Len(id) :
                        /\ AllDigits(SubSeq(id, d, k))
                        /\ (k = Len(id) \/ CharAt(id, k + 1) \notin Digits)
            IN [matched |-> TRUE, digits |-> SubSeq(id, d, e)]

Max(a, b) == IF a >= b THEN a ELSE b

\* The reduce of generateId over `items`; item.id?.match is undefined for an
\* absent or null id and a TypeError for any other non-string id.
RECURSIVE maxIdOf(_, _)
maxIdOf(items, prefix) ==
    IF items = <<>> THEN [threw |-> FALSE, max |-> 0]
    ELSE LET rest == maxIdOf(SubSeq(items, 1, Len(items) - 1), prefix)
             id == items[Len(items)]["id"]
         IN IF rest.threw THEN rest
            ELSE IF id.t \in {"undefined", "null"} THEN rest
            ELSE IF id.t # "string" THEN [threw |-> TRUE, max |-> 0]
            ELSE LET match == RegExpMatch(id.s, prefix) IN
                 IF match.matched
                 THEN [threw |-> FALSE, max |-> Max(rest.max, ParseDigits(match.digits))]
                 ELSE rest

\* generateId(type, items): [threw, id]
generateId(type, items) ==
    LET m == maxIdOf(items, Prefix(type)) IN
    IF m.threw THEN [threw |-> TRUE, id |-> ""]
    ELSE [threw |-> FALSE, id |-> Prefix(type) \o "-" \o ToString(m.max + 1)]

DefaultKey == "dev-key-change-in-production"

\* ADMIN_KEY || 'dev-key-change-in-production'
expectedKey(adminKey) == IF Falsy(adminKey) THEN Str(DefaultKey) ELSE adminKey

\* mutant: the header is compared with ADMIN_KEY itself, without the default
isAuthenticated_NoDefault(r, adminKey) ==
    IF r.method = "GET" THEN TRUE
    ELSE r.key = adminKey

\* isAuthenticated(req)
isAuthenticated(r, adminKey) ==
    IF r.method = "GET" THEN TRUE
    ELSE r.key = expectedKey(adminKey)

\* new Date().toISOString().split('T')[0]
Today == "2026-11-03"

\* DATA_FILES[type] is a path of a category file
HasDataFile(type) == type \in Types

\* readJsonFile(type) throws: no entry in DATA_FILES, or an inherited entry
\* that is no path (readFile rejects it).
readThrows(type) == ~HasDataFile(type)

readError(type) ==
    IF type \in InheritedNames THEN "The \"path\" argument must be of type string"
    ELSE "Unknown data type: " \o type

Response(status, error) ==
    [status |-> status, error |-> error, details |-> <<>>, item |-> EmptyObject,
     list |-> <<>>]

\* data.findIndex(i => i.id === itemId); 0 stands for -1
findIndex(data, itemId) ==
    LET hits == {i \in 1..Len(data) : data[i]["id"] = Str(itemId)} IN
    IF hits = {} THEN 0 ELSE CHOOSE i \in hits : \A j \in hits : i <= j

\* { id: generateId(type, data), ...body, addedDate: body.addedDate || today }
newItemOf(id, body) ==
    [f \in Fields |->
        IF f = "addedDate"
        THEN (IF Falsy(body[f]) THEN Str(Today) ELSE body[f])
        ELSE IF body[f] # Undef THEN body[f]
        ELSE IF f = "id" THEN Str(id)
        ELSE Undef]

\* mutant: { id: itemId, ...data[index], ...body }
mergeItem_IdFirst(old, body, itemId) ==
    [f \in Fields |->
        IF body[f] # Undef THEN body[f]
        ELSE IF f = "id" THEN Str(itemId)
        ELSE old[f]]

\* { ...data[index], ...body, id: itemId }
mergeItem(old, body, itemId) ==
    [f \in Fields |->
        IF f = "id" THEN Str(itemId)
        ELSE IF body[f] # Undef THEN body[f]
        ELSE old[f]]

RemoveAt(s, i) == SubSeq(s, 1, i - 1) \o SubSeq(s, i + 1, Len(s))

Reply(response, fs) == [res |-> response, files |-> fs]

\* The 400 answer to a failed validation
validationFailed(validation) ==
    [Response(400, "Validation failed") EXCEPT !.details = validation.errors]

handleGet(type, itemId, fs) ==
    IF readThrows(type) THEN Reply(Response(500, readError(type)), fs)
    ELSE LET data == fs[type] IN
         IF itemId # ""
         THEN LET index == findIndex(data, itemId) IN
              IF index = 0 THEN Reply(Response(404, "Item not found"), fs)
              ELSE Reply([Response(200, "") EXCEPT !.item = data[index]], fs)
         ELSE Reply([Response(200, "") EXCEPT !.list = data], fs)

\* mutant: data.push(newItem)
createItem_Append(type, body, fs, gen) ==
    IF gen.threw THEN Reply(Response(500, "TypeError"), fs)
    ELSE Reply([Response(201, "") EXCEPT !.item = newItemOf(gen.id, body.o)],
               [fs EXCEPT ![type] = fs[type] \o <<newItemOf(gen.id, body.o)>>])

\* POST after validation passed: read the file, build and prepend the item
createItem(type, body, fs, gen) ==
    IF gen.threw THEN Reply(Response(500, "TypeError"), fs)
    ELSE Reply([Response(201, "") EXCEPT !.item = newItemOf(gen.id, body.o)],
               [fs EXCEPT ![type] = <<newItemOf(gen.id, body.o)>> \o fs[type]])

postValidated(type, body, fs, validation) ==
    IF validation.threw THEN Reply(Response(500, "TypeError"), fs)
    ELSE IF ~validation.isValid THEN Reply(validationFailed(validation), fs)
    ELSE IF readThrows(type) THEN Reply(Response(500, readError(type)), fs)
    ELSE createItem(type, body, fs, generateId(type, fs[type]))

\* mutant: POST stores the payload without validating it
handlePost_NoValidation(type, body, fs) ==
    IF body.json = "invalid" THEN Reply(Response(500, "Invalid JSON"), fs)
    ELSE IF readThrows(type) THEN Reply(Response(500, readError(type)), fs)
    ELSE createItem(type, body, fs, generateId(type, fs[type]))

handlePost(type, body, fs) ==
    IF body.json = "invalid" THEN Reply(Response(500, "Invalid JSON"), fs)
    ELSE postValidated(type, body, fs, validateItem(type, body))

\* PUT after validation passed: read the file, find the item, merge, write
updateItem(type, itemId, body, fs) ==
    IF readThrows(type) THEN Reply(Response(500, readError(type)), fs)
    ELSE LET data == fs[type]
             index == findIndex(data, itemId)
         IN IF index = 0 THEN Reply(Response(404, "Item not found"), fs)
            ELSE LET merged == mergeItem(data[index], body.o, itemId) IN
                 Reply([Response(200, "") EXCEPT !.item = merged],
                       [fs EXCEPT ![type] = [data EXCEPT ![index] = merged]])

putValidated(type, itemId, body, fs, validation) ==
    IF validation.threw THEN Reply(Response(500, "TypeError"), fs)
    ELSE IF ~validation.isValid THEN Reply(validationFailed(validation), fs)
    ELSE updateItem(type, itemId, body, fs)

\* mutant: PUT merges without validating
handlePut_NoValidation(type, itemId, body, fs) ==
    IF body.json = "invalid" THEN Reply(Response(500, "Invalid JSON"), fs)
    ELSE updateItem(type, itemId, body, fs)

\* mutant: PUT looks the record up first and validates the merged record
handlePut_LooksUpFirst(type, itemId, body, fs) ==
    IF body.json = "invalid" THEN Reply(Response(500, "Invalid JSON"), fs)
    ELSE IF readThrows(type) THEN Reply(Response(500, readError(type)), fs)
    ELSE LET data == fs[type]
             index == findIndex(data, itemId)
         IN IF index = 0 THEN Reply(Response(404, "Item not found"), fs)
            ELSE LET merged == mergeItem(data[index], body.o, itemId)
                     validation == validateItem(type, JsonObject(merged))
                 IN IF validation.threw THEN Reply(Response(500, "TypeError"), fs)
                    ELSE IF ~validation.isValid THEN Reply(validationFailed(validation), fs)
                    ELSE Reply([Response(200, "") EXCEPT !.item = merged],
                               [fs EXCEPT ![type] = [data EXCEPT ![index] = merged]])

handlePut(type, itemId, body, fs) ==
    IF body.json = "invalid" THEN Reply(Response(500, "Invalid JSON"), fs)
    ELSE putValidated(type, itemId, body, fs, validateItem(type, body))

\* mutant: splice(-1, 1) is not guarded, the last record goes
handleDelete_Unguarded(type, itemId, fs) ==
    IF readThrows(type) THEN Reply(Response(500, readError(type)), fs)
    ELSE LET data == fs[type]
             index == findIndex(data, itemId)
             at == IF index = 0 THEN Len(data) ELSE index
         IN IF at = 0 THEN Reply(Response(404, "Item not found"), fs)
            ELSE Reply([Response(200, "") EXCEPT !.item = data[at]],
                       [fs EXCEPT ![type] = RemoveAt(data, at)])

handleDelete(type, itemId, fs) ==
    IF readThrows(type) THEN Reply(Response(500, readError(type)), fs)
    ELSE LET data == fs[type]
             index == findIndex(data, itemId)
         IN IF index = 0 THEN Reply(Response(404, "Item not found"), fs)
            ELSE Reply([Response(200, "") EXCEPT !.item = data[index]],
                       [fs EXCEPT ![type] = RemoveAt(data, index)])

\* pathParts[i], "" for undefined
Part(path, i) == IF Len(path) >= i THEN path[i] ELSE ""

\* handleRequest(req, res) run to completion on the files fs: the response
\* and the files it leaves.
handleRequest(r, fs, adminKey) ==
    IF r.method = "OPTIONS" THEN Reply(Response(204, ""), fs)
    ELSE IF ~isAuthenticated(r, adminKey)
    THEN Reply(Response(401, "Unauthorized - Invalid or missing admin key"), fs)
    ELSE IF Part(r.path, 1) # "api" \/ Part(r.path, 2) = ""
    THEN Reply(Response(404, "Not found"), fs)
    ELSE LET type == Part(r.path, 2)
             itemId == Part(r.path, 3)
         IN CASE r.method = "GET" -> handleGet(type, itemId, fs)
              [] r.method = "POST" -> handlePost(type, r.body, fs)
              [] r.method = "PUT" /\ itemId # "" -> handlePut(type, itemId, r.body, fs)
              [] r.method = "DELETE" /\ itemId # "" -> handleDelete(type, itemId, fs)
              [] OTHER -> Reply(Response(405, "Method not allowed"), fs)

----------------------------------------------------------------------------
(* The server as a state machine: one action per request, run to completion *)

MaxItems == 2   \* records in all category files together
MaxId == 2      \* largest numeric suffix generateId may hand out
MaxFiles == 2   \* category files that hold records at the same time

BadJson == [json |-> "invalid", o |-> EmptyObject]

BasePayload ==
    [EmptyObject EXCEPT !["title"] = Str("T"), !["author"] = Str("A"),
                        !["artist"] = Str("R"), !["cover"] = Str("/c.jpg")]

\* valid in every category; carries an id of its own
RatedPayload ==
    [BasePayload EXCEPT !["title"] = Str("U"), !["cover"] = Str("https://x.io/c.jpg"),
                        !["rating"] = Num(10), !["id"] = Str("book-1")]

\* two violations: no title, rating above the maximum
InvalidPayload == [BasePayload EXCEPT !["title"] = Undef, !["rating"] = Num(11)]

\* a cover that is no string
NumericCoverPayload == [BasePayload EXCEPT !["cover"] = Num(5)]

Bodies ==
    {JsonObject(BasePayload), JsonObject(RatedPayload), JsonObject(InvalidPayload),
     JsonObject(NumericCoverPayload), JsonNull, BadJson}

PathTypes == Types \cup {"games", "constructor"}

PathIds(type) == {Prefix(type) \o "-" \o ToString(k) : k \in 1..MaxId}

CollectionPaths == {<<"api", t>> : t \in PathTypes}
ItemPaths == UNION {{<<"api", t, id>> : id \in PathIds(t)} : t \in PathTypes}
Paths == {<<"admin">>, <<"api">>} \cup CollectionPaths \cup ItemPaths

\* the paths a request with a refused key is sent to
FewPaths ==
    {<<"admin">>, <<"api", "books">>, <<"api", "games">>, <<"api", "books", "book-1">>,
     <<"api", "music", "music-1">>}

Keys == {Undef, Str("s3cret"), Str(DefaultKey)}

Request(method, path, key, body) ==
    [method |-> method, path |-> path, key |-> key, body |-> body]

\* The requests the model sends.  With the key the server expects: GET and
\* DELETE on every path, POST on every path but the item paths of the second
\* id and up, PUT on every path, both with every body.  With any other key or
\* none: GET on every path, and the other methods on FewPaths with three of
\* the bodies.
Requests(adminKey) ==
    LET good == expectedKey(adminKey)
        empty == JsonObject(EmptyObject)
        firstItemPaths == {<<"api", t, Prefix(t) \o "-1">> : t \in PathTypes}
    IN {Request(m, p, good, empty) : m \in {"GET", "DELETE"}, p \in Paths}
       \cup {Request(m, p, good, empty) :
                m \in {"OPTIONS", "PATCH"}, p \in FewPaths}
       \cup {Request("POST", p, good, b) :
                p \in (Paths \ ItemPaths) \cup firstItemPaths, b \in Bodies}
       \cup {Request("PUT", p, good, b) : p \in Paths, b \in Bodies}
       \cup {Request("GET", p, Undef, empty) : p \in Paths}
       \cup {Request(m, p, k, b) :
                m \in {"POST", "PUT", "DELETE", "PATCH", "OPTIONS"}, p \in FewPaths,
                k \in Keys \ {good},
                b \in {JsonObject(BasePayload), JsonObject(InvalidPayload), BadJson}}

RequestsOf(method, adminKey) == {r \in Requests(adminKey) : r.method = method}

NoRequest == [method |-> "", path |-> <<>>, key |-> Undef, body |-> BadJson]

RECURSIVE TotalItems(_, _)
TotalItems(fs, types) ==
    IF types = {} THEN 0
    ELSE LET t == CHOOSE x \in types : TRUE IN Len(fs[t]) + TotalItems(fs, types \ {t})

\* The bounds of the model: a create is taken only while the files stay
\* within MaxItems records and ids within MaxId.
WithinBounds(fs) ==
    /\ TotalItems(fs, Types) <= MaxItems
    /\ Cardinality({t \in Types : fs[t] # <<>> \/ retired[t] # {}}) <= MaxFiles
    /\ \A t \in Types : LET m == maxIdOf(fs[t], Prefix(t)) IN ~m.threw /\ m.max <= MaxId

IsCreated(r, out) == r.method = "POST" /\ out.res.status = 201
IsDeleted(r, out) == r.method = "DELETE" /\ out.res.status = 200

\* The request r is handled to completion, with outcome `out`.
Completes(r, track, out) ==
    /\ WithinBounds(out.files)
    /\ files' = out.files
    /\ req' = r
    /\ res' = out.res
    /\ before' = files
    /\ retired' =
         IF track /\ IsDeleted(r, out)
         THEN [retired EXCEPT ![Part(r.path, 2)] = @ \cup {out.res.item["id"].s}]
         ELSE retired
    /\ UNCHANGED <<ADMIN_KEY, validatorVars, utilVars, pageVars, raceVars, securityVars>>

Handle(r, track) == Completes(r, track, handleRequest(r, files, ADMIN_KEY))

Idle == req = NoRequest

Options == Idle /\ \E r \in RequestsOf("OPTIONS", ADMIN_KEY) : Handle(r, FALSE)
Get == Idle /\ \E r \in RequestsOf("GET", ADMIN_KEY) : Handle(r, FALSE)
Post == Idle /\ \E r \in RequestsOf("POST", ADMIN_KEY) : Handle(r, FALSE)
Put == Idle /\ \E r \in RequestsOf("PUT", ADMIN_KEY) : Handle(r, FALSE)
Delete == Idle /\ \E r \in RequestsOf("DELETE", ADMIN_KEY) : Handle(r, FALSE)
OtherMethod == Idle /\ \E r \in RequestsOf("PATCH", ADMIN_KEY) : Handle(r, FALSE)

\* The response has been sent; the server waits for the next request.
Finish ==
    /\ ~Idle
    /\ req' = NoRequest
    /\ res' = Response(0, "")
    /\ before' = files
    /\ UNCHANGED <<ADMIN_KEY, files, retired, validatorVars, utilVars, pageVars, raceVars, securityVars>>

InitValidator ==
    /\ vType = "books"
    /\ vData = JsonObject(EmptyObject)
    /\ vResult = <<>>

InitServer ==
    /\ ADMIN_KEY \in {Undef, Str("s3cret")}
    /\ files = [t \in Types |-> <<>>]
    /\ req = NoRequest
    /\ res = Response(0, "")
    /\ before = files
    /\ retired = [t \in Types |-> {}]

\* no call of filters.ts is set up
InitUtil ==
    /\ uItems = <<>>
    /\ uFilters = <<>>
    /\ uMapping = {}
    /\ uSort = ""
    /\ uFrom = ""
    /\ uOut = <<>>

\* no catalog page is open
InitNoPage ==
    /\ page = <<>>
    /\ pageEvent = <<>>
    /\ pagePrev = <<>>
    /\ pageLoaded = <<>>

\* no request is in flight
InitNoRace ==
    /\ race = <<>>
    /\ lastWriter = <<>>

\* no rate limiter is made and no string is escaped
InitNoSecurity ==
    /\ limiter = <<>>
    /\ clock = 0
    /\ granted = <<>>
    /\ lastCall = <<>>
    /\ html = <<>>

InitOthers == InitNoPage /\ InitNoRace /\ InitNoSecurity

Init == InitServer /\ InitValidator /\ InitUtil /\ InitOthers

Next == Options \/ Get \/ Post \/ Put \/ Delete \/ OtherMethod \/ Finish

Spec == Init /\ [][Next]_vars

----------------------------------------------------------------------------
(* One run of the server with the history of its deletes: creates (of a payload
   that carries no id) and deletes, sent with the expected key *)

RunRequests(method, adminKey) ==
    {r \in RequestsOf(method, adminKey) :
        /\ r.key = expectedKey(adminKey)
        /\ r.path \in {<<"api", t>> : t \in Types} \cup ItemPaths
        /\ r.body \in {JsonObject(EmptyObject), JsonObject(BasePayload)}}

RunCreate == Idle /\ \E r \in RunRequests("POST", ADMIN_KEY) : Handle(r, TRUE)
RunDelete == Idle /\ \E r \in RunRequests("DELETE", ADMIN_KEY) : Handle(r, TRUE)

NextRun == RunCreate \/ RunDelete \/ Finish

SpecRun == Init /\ [][NextRun]_vars

----------------------------------------------------------------------------
(* validateItem on its own: the inputs are drawn from bounded sets *)

ValidatorTypes == Types \cup {"games", "constructor"}

ValidatorObjects ==
    {[EmptyObject EXCEPT !["title"] = title, !["author"] = person, !["artist"] = person,
                         !["cover"] = cover, !["rating"] = rating, !["year"] = year,
                         !["status"] = status, !["notes"] = notes] :
        title \in {Undef, Str("T"), Num(5)},
        person \in {Undef, Str("A")},
        cover \in {Undef, Str("/c.jpg"), Str("https://x.io/c.jpg"), Str("cover"), Num(5)},
        rating \in {Undef, Num(0), Num(1), Num(10), Num(11), Str("11"), Str("ten")},
        year \in {Undef, Num(0), Num(999), Num(1000), Num(2100), Num(2101)},
        status \in {Undef, Str("reading")},
        notes \in {Undef, Bool(FALSE)}}

ValidatorInputs == {JsonNull} \cup {JsonObject(o) : o \in ValidatorObjects}

\* validateItem(vType, vData) is called and returns (or throws)
Validate ==
    /\ vResult = <<>>
    /\ vResult' = <<validateItem(vType, vData)>>
    /\ UNCHANGED <<serverVars, vType, vData, utilVars, pageVars, raceVars, securityVars>>

InitValidate ==
    /\ InitServer
    /\ ADMIN_KEY = Undef
    /\ vType \in ValidatorTypes
    /\ vData \in ValidatorInputs
    /\ vResult = <<>>
    /\ InitUtil
    /\ InitOthers

NextValidate == Validate

SpecValidate == InitValidate /\ [][NextValidate]_vars

----------------------------------------------------------------------------
(* Properties *)

Answered == req # NoRequest
ReqType == Part(req.path, 2)
ReqId == Part(req.path, 3)
OnApiRoute == Part(req.path, 1) = "api" /\ ReqType # ""
HasExpectedKey == req.key = expectedKey(ADMIN_KEY)
IsWrite == req.method \in {"POST", "PUT", "DELETE"}

\* C1: a POST, PUT or DELETE whose X-Admin-Key header is absent or differs
\* from the configured key is answered 401 and leaves every category file as
\* it was, whatever its path and body; a GET is never refused for its
\* credential.
C1_UnauthenticatedWriteRefused ==
    /\ (Answered /\ IsWrite /\ ~HasExpectedKey) => (res.status = 401 /\ files = before)
    /\ (Answered /\ req.method = "GET") => res.status # 401

\* a POST of a valid payload to /api/books with no key header was answered 401
C1_Witness ==
    /\ req = Request("POST", <<"api", "books">>, Undef, JsonObject(BasePayload))
    /\ res.status = 401

\* C2: a successful create answers 201 with a record whose id is
\* {category-prefix}-{n}, n one more than the largest numeric suffix among the
\* ids already in the category (1 for an empty collection), also when the
\* payload carries an id of its own.
C2_CreatedIdIsGenerated ==
    (Answered /\ req.method = "POST" /\ res.status = 201) =>
        res.item["id"] =
            Str(Prefix(ReqType) \o "-"
                \o ToString(maxIdOf(before[ReqType], Prefix(ReqType)).max + 1))

\* C3: the ids of the records of a category file are pairwise distinct (they
\* are in the initial files, and every request is handled on its own).
C3_IdsDistinct ==
    \A t \in Types : \A i, j \in 1..Len(files[t]) :
        i # j => files[t][i]["id"] # files[t][j]["id"]

\* C4: within one run, a create never hands out an id that a delete has
\* removed from that category.
C4_NoIdReuse ==
    (Answered /\ req.method = "POST" /\ res.status = 201) =>
        res.item["id"].s \notin retired[ReqType]

\* C5: a POST or PUT sent with the expected key validates its payload before
\* touching the store: a payload that fails validation is answered 400
\* "Validation failed" with the whole error list and the files stay as they
\* were, and the files change only for a payload that passed.
C5_ValidationBeforeStore ==
    (/\ Answered /\ HasExpectedKey /\ OnApiRoute
     /\ req.method = "POST" \/ (req.method = "PUT" /\ ReqId # "")
     /\ req.body.json # "invalid") =>
        LET v == validateItem(ReqType, req.body) IN
        /\ (~v.threw /\ ~v.isValid) =>
              /\ res.status = 400
              /\ res.error = "Validation failed"
              /\ res.details = v.errors
              /\ files = before
        /\ files # before => (~v.threw /\ v.isValid)

\* a PUT of a payload with two violations to an existing book was answered 400
\* with both messages
C5_Witness ==
    /\ req.method = "PUT"
    /\ req.path = <<"api", "books", "book-1">>
    /\ req.body = JsonObject(InvalidPayload)
    /\ findIndex(before["books"], "book-1") # 0
    /\ res.status = 400
    /\ res.details = <<"title is required", "rating must be at most 10">>

\* empty as the validator's own comment means it: absent, null or ''
IsEmpty(value) == value.t \in {"undefined", "null"} \/ value = Str("")

\* the message of the rule a field's value violates, if any
Violation(rules, value) ==
    IF rules.required /\ IsEmpty(value) THEN ruleRequired(value, rules.name)
    ELSE IF IsEmpty(value) THEN <<>>
    ELSE CASE rules.type = "string" -> ruleString(value, rules.name)
           [] rules.type = "number" -> ruleNumber(value, rules.name, rules.min, rules.max)
           [] rules.type = "url" -> ruleUrl(value, rules.name).errs
           [] rules.type = "date" -> ruleDate(value, rules.name)
           [] rules.type = "enum" -> ruleEnum(value, rules.name, rules.values)

RECURSIVE Violations(_, _)
Violations(schema, obj) ==
    IF schema = <<>> THEN <<>>
    ELSE Violation(Head(schema), obj[Head(schema).name]) \o Violations(Tail(schema), obj)

Returned == vResult # <<>> /\ ~vResult[1].threw
OfKnownType == vType \in Types /\ vData.json = "object"

\* C6: for a known category validateItem returns, in schema field order, one
\* message for each schema field whose value violates its rule, and isValid
\* is true exactly when that list is empty.
C6_AllViolationsReported ==
    (Returned /\ OfKnownType) =>
        /\ vResult[1].errors = Violations(FIELD_SCHEMAS(vType).fields, vData.o)
        /\ vResult[1].isValid = (vResult[1].errors = <<>>)

NumberMessages(fieldName, min, max) ==
    {fieldName \o " must be a number",
     fieldName \o " must be at least " \o ToString(min),
     fieldName \o " must be at most " \o ToString(max)}

Rejects(errors, fieldName, min, max) ==
    \E i \in 1..Len(errors) : errors[i] \in NumberMessages(fieldName, min, max)

\* a present numeric value of the field is rejected iff it lies outside min..max
RangeEnforced(fieldName, min, max) ==
    LET value == vData.o[fieldName]
        num == ToNumber(value)
    IN (value.t \notin {"undefined", "null"} /\ ~num.nan) =>
          (Rejects(vResult[1].errors, fieldName, min, max) <=> num.n \notin min..max)

\* C7: in every category the numeric-range rule rejects every present rating
\* outside 1..10 and every present year outside 1000..2100, and accepts the
\* bounds themselves.
C7_RangeRule ==
    (Returned /\ OfKnownType) =>
        /\ RangeEnforced("rating", RatingMin, RatingMax)
        /\ RangeEnforced("year", YearMin, YearMax)

\* C8: validateItem returns a ValidationResult for every category name and
\* every parsed JSON payload; it never raises.
C8_NeverRaises == vResult # <<>> => ~vResult[1].threw

\* C9: a request to /api/{category} or /api/{category}/{id} whose category is
\* none of books, movies, series, music is answered 404 and changes no file,
\* for GET and for POST, PUT, DELETE sent with the expected key.
C9_UnknownCategoryNotFound ==
    (/\ Answered /\ OnApiRoute /\ ReqType \notin Types
     /\ req.method = "GET" \/ (IsWrite /\ HasExpectedKey)) =>
        (res.status = 404 /\ files = before)

\* C10: a successful update stores and returns the merge of the old record
\* and the payload: a field the payload holds takes the payload's value, a
\* field it lacks keeps the old value, and the id is the id of the request
\* path even when the payload carries another.
C10_UpdateMerges ==
    (Answered /\ req.method = "PUT" /\ res.status = 200) =>
        LET index == findIndex(before[ReqType], ReqId)
            old == before[ReqType][index]
            new == files[ReqType][index]
        IN /\ index # 0
           /\ Len(files[ReqType]) = Len(before[ReqType])
           /\ res.item = new
           /\ new["id"] = Str(ReqId)
           /\ \A f \in Fields \ {"id"} :
                 new[f] = IF req.body.o[f] # Undef THEN req.body.o[f] ELSE old[f]

\* book-2, created from the payload without rating, was updated with the
\* payload that carries the id book-1: the title changed, the added date
\* stayed, the id is still book-2
C10_Witness ==
    /\ req.method = "PUT"
    /\ req.path = <<"api", "books", "book-2">>
    /\ req.body = JsonObject(RatedPayload)
    /\ res.status = 200
    /\ before["books"][findIndex(before["books"], "book-2")]["title"] = Str("T")
    /\ res.item["title"] = Str("U")
    /\ res.item["addedDate"] = Str(Today)
    /\ res.item["id"] = Str("book-2")

\* no record of the requested category carried the requested id
IdAbsent ==
    /\ ReqType \in Types
    /\ ReqId # ""
    /\ \A i \in 1..Len(before[ReqType]) : before[ReqType][i]["id"] # Str(ReqId)

NotFoundAnswer == res.status = 404 /\ res.error = "Item not found" /\ files = before

PayloadPasses ==
    /\ req.body.json # "invalid"
    /\ LET v == validateItem(ReqType, req.body) IN ~v.threw /\ v.isValid

\* C11 (as stated): an authenticated PUT or DELETE, and a GET by id, whose id
\* is absent from the category's collection is answered 404 "Item not found"
\* and leaves the category file unchanged, whatever the PUT's payload.
C11_AbsentIdNotFound ==
    (/\ Answered /\ OnApiRoute /\ IdAbsent
     /\ req.method = "GET" \/ (req.method \in {"PUT", "DELETE"} /\ HasExpectedKey)) =>
        NotFoundAnswer

\* C11 (amended): the same for DELETE and GET by id, and for a PUT whose
\* payload passed validation; a PUT is validated before the lookup.
C11_AbsentIdNotFoundOnceValid ==
    (/\ Answered /\ OnApiRoute /\ IdAbsent
     /\ \/ req.method = "GET"
        \/ req.method = "DELETE" /\ HasExpectedKey
        \/ req.method = "PUT" /\ HasExpectedKey /\ PayloadPasses) =>
        NotFoundAnswer

\* a DELETE of book-2 from a books file that holds only book-1 was answered 404
C11_Witness ==
    /\ req.method = "DELETE"
    /\ req.path = <<"api", "books", "book-2">>
    /\ HasExpectedKey
    /\ Len(before["books"]) = 1
    /\ before["books"][1]["id"] = Str("book-1")
    /\ res.status = 404
    /\ files = before

\* C12: each successful write changes one record of one category file: a
\* create puts the new record at index 0, an update replaces the record at its
\* index, a delete removes that one record and returns it; the other records
\* keep their contents and order and the other files are unchanged.
C12_OneRecordChanged ==
    (Answered /\ IsWrite /\ res.status \in {200, 201}) =>
        LET old == before[ReqType]
            new == files[ReqType]
            index == findIndex(old, ReqId)
        IN /\ \A t \in Types \ {ReqType} : files[t] = before[t]
           /\ req.method = "POST" => new = <<res.item>> \o old
           /\ req.method = "PUT" =>
                 /\ index # 0
                 /\ Len(new) = Len(old)
                 /\ new[index] = res.item
                 /\ \A i \in 1..Len(old) : i # index => new[i] = old[i]
           /\ req.method = "DELETE" =>
                 /\ index # 0
                 /\ res.item = old[index]
                 /\ new = RemoveAt(old, index)

\* a create into a books file that already held a record put the new record
\* in front of it
C12_Witness ==
    /\ req.method = "POST"
    /\ res.status = 201
    /\ Len(before["books"]) = 1
    /\ Len(files["books"]) = 2
    /\ files["books"][2] = before["books"][1]
    /\ files["books"][1] = res.item

\* validateItem(type, record).isValid, for a stored record
Passes(type, record) ==
    LET validation == validateItem(type, JsonObject(record)) IN
    ~validation.threw /\ validation.isValid

\* C24: starting from category files in which every record passes
\* validateItem for its category, after any sequence of non-overlapping API
\* requests every record in every file still passes validateItem; a created
\* record and a merged record are both valid.
C24_StoredRecordsValid ==
    \A type \in Types : \A i \in 1..Len(files[type]) : Passes(type, files[type][i])

\* a PUT merged a payload without a rating over a rated record: the stored
\* record has the payload's title and the old rating, next to a created record
\* whose addedDate was defaulted
C24_Witness ==
    /\ req.method = "PUT"
    /\ res.status = 200
    /\ req.body = JsonObject(BasePayload)
    /\ Len(files["books"]) = 2
    /\ \E i \in 1..2 :
          /\ files["books"][i] = res.item
          /\ before["books"][i]["title"] = Str("U")
          /\ res.item["title"] = Str("T")
          /\ res.item["rating"] = Num(10)
          /\ res.item["addedDate"] = Str(Today)
          /\ files["books"][3 - i] = before["books"][3 - i]

\* C25: PUT validates the payload on its own, before looking up the record and
\* without merging: a payload that fails validateItem by itself (it omits a
\* required field, say) is answered 400 with the payload's own messages,
\* whether the stored record has the field or the id is absent (400, not 404),
\* and the files are unchanged.
C25_PutValidatesPayloadAlone ==
    (/\ Answered /\ HasExpectedKey /\ OnApiRoute
     /\ req.method = "PUT" /\ ReqId # ""
     /\ req.body.json = "object"
     /\ ~validateItem(ReqType, req.body).threw
     /\ ~validateItem(ReqType, req.body).isValid) =>
        /\ res.status = 400
        /\ res.details = validateItem(ReqType, req.body).errors
        /\ files = before

\* a PUT without the required title to an id the books file does not hold,
\* while it holds another record, was answered 400
C25_Witness ==
    /\ req.method = "PUT"
    /\ HasExpectedKey
    /\ req.path = <<"api", "books", "book-2">>
    /\ req.body = JsonObject(InvalidPayload)
    /\ Len(before["books"]) = 1
    /\ before["books"][1]["title"] # Undef
    /\ findIndex(before["books"], "book-2") = 0
    /\ res.status = 400
    /\ files = before

----------------------------------------------------------------------------
(* src/utils/filters.ts: the filter matcher and the sort comparator.  An item
   is a record of the fields the accessors read; a field holds Undef, a
   string or a number. *)

Whitespace == {" "}

\* the first index from i on that holds no whitespace
RECURSIVE SkipWs(_, _)
SkipWs(s, i) ==
    IF i <= Len(s) /\ CharAt(s, i) \in Whitespace THEN SkipWs(s, i + 1) ELSE i

\* /\s*\/\s*/ matched at index i: the index after the match, 0 for no match
SeparatorEnd(s, i) ==
    LET j == SkipWs(s, i) IN
    IF j <= Len(s) /\ CharAt(s, j) = "/" THEN SkipWs(s, j + 1) ELSE 0

\* value.split(/\s*\/\s*/), the piece in progress starting at `start`
RECURSIVE SplitFrom(_, _, _)
SplitFrom(s, start, i) ==
    IF i > Len(s) THEN <<SubSeq(s, start, Len(s))>>
    ELSE LET e == SeparatorEnd(s, i) IN
         IF e = 0 THEN SplitFrom(s, start, i + 1)
         ELSE <<SubSeq(s, start, i - 1)>> \o SplitFrom(s, e, e)

RECURSIVE TrimEnd(_)
TrimEnd(s) ==
    IF s # "" /\ CharAt(s, Len(s)) \in Whitespace THEN TrimEnd(SubSeq(s, 1, Len(s) - 1))
    ELSE s

\* v.trim()
Trim(s) == TrimEnd(SubSeq(s, SkipWs(s, 1), Len(s)))

NonEmpty(x) == x # ""

\* splitBySlash(value)
splitBySlash(value) ==
    IF Falsy(value) THEN <<>>
    ELSE LET pieces == SplitFrom(value.s, 1, 1) IN
         SelectSeq([i \in 1..Len(pieces) |-> Trim(pieces[i])], NonEmpty)

\* text.includes(part) on strings
StringIncludes(text, part) ==
    \E i \in 1..(Len(text) + 1) :
        i + Len(part) - 1 <= Len(text) /\ SubSeq(text, i, i + Len(part) - 1) = part

\* mutant: the item value is searched for the filter value as a substring
matchesFilter_Substring(itemValue, filterValue, matchMode) ==
    IF filterValue = "all" THEN TRUE
    ELSE IF Falsy(itemValue) THEN FALSE
    ELSE IF matchMode = "exact" THEN itemValue.s = filterValue
    ELSE StringIncludes(itemValue.s, filterValue)

\* matchesFilter({ itemValue, filterValue, matchMode })
matchesFilter(itemValue, filterValue, matchMode) ==
    IF filterValue = "all" THEN TRUE
    ELSE IF Falsy(itemValue) THEN FALSE
    ELSE IF matchMode = "exact" THEN itemValue.s = filterValue
    ELSE LET itemValues == splitBySlash(itemValue) IN
         \E i \in 1..Len(itemValues) : itemValues[i] = filterValue

\* the callback of items.filter: every entry of the FilterState passes
passesFilters(item, filters, mapping) ==
    \A filterType \in DOMAIN filters :
        \/ filters[filterType] = "all"
        \/ filterType \notin mapping
        \/ matchesFilter(item[filterType], filters[filterType], "contains")

\* filterItems(items, filters, fieldMapping); the accessor of a dimension in
\* `mapping` reads the item's field of that name
RECURSIVE filterItems(_, _, _)
filterItems(items, filters, mapping) ==
    IF items = <<>> THEN <<>>
    ELSE (IF passesFilters(Head(items), filters, mapping) THEN <<Head(items)>> ELSE <<>>)
         \o filterItems(Tail(items), filters, mapping)

\* the collation of localeCompare on the characters of the model: hyphen,
\* digits, letters; a letter and its capital differ at the last level only,
\* the small letter first
Collation ==
    <<" ", "-", "0", "1", "2", "3", "4", "5", "6", "7", "8", "9", "a", "b", "c">>
Capitals == <<"A", "B", "C">>
Smalls == <<"a", "b", "c">>

IsCapital(c) == \E i \in 1..Len(Capitals) : Capitals[i] = c

LowerChar(c) ==
    IF IsCapital(c) THEN Smalls[CHOOSE i \in 1..Len(Capitals) : Capitals[i] = c] ELSE c

\* s.toLowerCase()
RECURSIVE toLowerCase(_)
toLowerCase(s) ==
    IF s = "" THEN ""
    ELSE LowerChar(CharAt(s, 1)) \o toLowerCase(SubSeq(s, 2, Len(s)))

Rank(c) == CHOOSE i \in 1..Len(Collation) : Collation[i] = LowerChar(c)

RECURSIVE PrimaryCompare(_, _)
PrimaryCompare(a, b) ==
    IF a = "" /\ b = "" THEN 0
    ELSE IF a = "" THEN -1
    ELSE IF b = "" THEN 1
    ELSE IF Rank(CharAt(a, 1)) < Rank(CharAt(b, 1)) THEN -1
    ELSE IF Rank(CharAt(a, 1)) > Rank(CharAt(b, 1)) THEN 1
    ELSE PrimaryCompare(SubSeq(a, 2, Len(a)), SubSeq(b, 2, Len(b)))

RECURSIVE CaseCompare(_, _)
CaseCompare(a, b) ==
    IF a = "" THEN 0
    ELSE IF CharAt(a, 1) = CharAt(b, 1)
    THEN CaseCompare(SubSeq(a, 2, Len(a)), SubSeq(b, 2, Len(b)))
    ELSE IF IsCapital(CharAt(a, 1)) THEN 1 ELSE -1

\* a.localeCompare(b)
localeCompare(a, b) ==
    IF PrimaryCompare(a, b) # 0 THEN PrimaryCompare(a, b) ELSE CaseCompare(a, b)

\* sortValue.split("-"): the text before the first hyphen of s from index i
RECURSIVE UpToHyphen(_, _)
UpToHyphen(s, i) ==
    IF i > Len(s) \/ CharAt(s, i) = "-" THEN ""
    ELSE CharAt(s, i) \o UpToHyphen(s, i + 1)

SortFieldOf(sortValue) == UpToHyphen(sortValue, 1)

\* the second part of the split; "" stands for undefined (neither is "desc")
SortDirectionOf(sortValue) ==
    UpToHyphen(sortValue, Len(SortFieldOf(sortValue)) + 2)

\* x || dflt
OrElse(x, dflt) == IF Falsy(x) THEN dflt ELSE x

\* the comparator given to sorted.sort in sortItems
compareItems(a, b, field, direction) ==
    IF field \notin {"added", "rating", "year", "title"} THEN 0
    ELSE LET aVal == CASE field = "added" -> OrElse(a["addedDate"], Str("1970-01-01"))
                       [] field = "rating" -> OrElse(a["rating"], Num(0))
                       [] field = "year" -> OrElse(a["year"], Num(0))
                       [] field = "title" -> Str(toLowerCase(OrElse(a["title"], Str("")).s))
             bVal == CASE field = "added" -> OrElse(b["addedDate"], Str("1970-01-01"))
                       [] field = "rating" -> OrElse(b["rating"], Num(0))
                       [] field = "year" -> OrElse(b["year"], Num(0))
                       [] field = "title" -> Str(toLowerCase(OrElse(b["title"], Str("")).s))
             result == IF aVal.t = "string" /\ bVal.t = "string"
                       THEN localeCompare(aVal.s, bVal.s)
                       ELSE aVal.n - bVal.n
         IN IF direction = "desc" THEN 0 - result ELSE result

\* Array.prototype.sort is stable: x goes in front of the first item that the
\* comparator puts after it
RECURSIVE insertItem(_, _, _, _)
insertItem(sorted, x, field, direction) ==
    IF sorted = <<>> THEN <<x>>
    ELSE IF compareItems(Head(sorted), x, field, direction) > 0 THEN <<x>> \o sorted
    ELSE <<Head(sorted)>> \o insertItem(Tail(sorted), x, field, direction)

RECURSIVE sortBy(_, _, _)
sortBy(items, field, direction) ==
    IF items = <<>> THEN <<>>
    ELSE insertItem(sortBy(SubSeq(items, 1, Len(items) - 1), field, direction),
                    items[Len(items)], field, direction)

\* sortItems(items, sortValue, getters): the array returned, and the items
\* array as the call leaves it (the sort works on a copy)
sortItems(items, sortValue) ==
    [sorted |-> sortBy(items, SortFieldOf(sortValue), SortDirectionOf(sortValue)),
     items |-> items]

----------------------------------------------------------------------------
(* Calls of filterItems and sortItems on inputs drawn from bounded sets *)

MaxShelf == 3   \* items in the array given to sortItems
MaxMatched == 2 \* items in the array given to filterItems

Dimensions == {"country", "genre", "status"}

UtilItem(id, title, rating, year, addedDate, country, genre, status) ==
    [id |-> Str(id), title |-> title, rating |-> rating, year |-> year,
     addedDate |-> addedDate, country |-> country, genre |-> genre, status |-> status]

\* items that differ in the fields the filter reads
FilterPool ==
    {UtilItem("i", Str("a"), Undef, Undef, Undef, country, genre, Str("completed")) :
        country \in {Undef, Str(""), Str("US"), Str("US / UK"), Str("UK/US "), Str("USA"),
                     Str(" / US")},
        genre \in {Undef, Str("b"), Str("a /b")}}

FilterStates ==
    {[d \in Dimensions |-> IF d = "country" THEN c ELSE IF d = "genre" THEN g ELSE st] :
        c \in {"all", "US", "UK", "US / UK", ""},
        g \in {"all", "b", "a /b"},
        st \in {"all", "reading"}}

\* items that differ in the fields the comparator reads
SortPool ==
    {UtilItem("1", Str("b"), Num(7), Num(1999), Str("2023-05-01"), Undef, Undef, Undef),
     UtilItem("2", Str("a"), Undef, Num(2005), Undef, Undef, Undef, Undef),
     UtilItem("3", Str("A"), Num(3), Undef, Str("2024-01-15"), Undef, Undef, Undef),
     UtilItem("4", Str("ab"), Num(7), Num(1999), Str("2023-05-01"), Undef, Undef, Undef),
     UtilItem("5", Undef, Num(0), Num(0), Str(""), Undef, Undef, Undef),
     UtilItem("6", Str("B"), Num(10), Num(2100), Str("1969-12-31"), Undef, Undef, Undef)}

SortFields == {"added", "rating", "year", "title"}
ValidSortValues == {f \o "-" \o d : f \in SortFields, d \in {"asc", "desc"}}

\* an unknown field; a known field with no direction or an unrecognized one
MalformedSortValues == {"size-asc", "", "title", "rating-", "year-down", "added-ASC"}

SortValues == ValidSortValues \cup MalformedSortValues

SeqsUpTo(pool, n) == UNION {[1..k -> pool] : k \in 0..n}

InitFilterCall ==
    /\ uItems \in SeqsUpTo(FilterPool, MaxMatched)
    /\ uFilters \in FilterStates
    /\ uMapping \in {Dimensions, {"country", "genre"}, {"genre"}, {}}
    /\ uSort = ""
    /\ uFrom = ""
    /\ uOut = <<>>

InitSortCall ==
    /\ uItems \in SeqsUpTo(SortPool, MaxShelf)
    /\ uFilters = <<>>
    /\ uMapping = {}
    /\ uSort \in SortValues
    /\ uFrom = ""
    /\ uOut = <<>>

\* a call made: the function, the array it was given, the array it returned
CallResult(fn, input, result) == [fn |-> fn, input |-> input, result |-> result]

\* filterItems(uItems, uFilters, fieldMapping) is called and returns
FilterCall ==
    /\ uOut = <<>>
    /\ DOMAIN uFilters # {}
    /\ uOut' = <<CallResult("filterItems", uItems, filterItems(uItems, uFilters, uMapping))>>
    /\ UNCHANGED <<serverVars, validatorVars, pageVars, raceVars, securityVars>>
    /\ UNCHANGED <<uItems, uFilters, uMapping, uSort, uFrom>>

Sorts(input, sortValue, from, out) ==
    /\ uSort' = sortValue
    /\ uFrom' = from
    /\ uItems' = out.items
    /\ uOut' = <<CallResult("sortItems", input, out.sorted)>>
    /\ UNCHANGED <<serverVars, validatorVars, pageVars, raceVars, uFilters, uMapping, securityVars>>

\* sortItems(uItems, uSort, getters) is called and returns
SortCall ==
    /\ uOut = <<>>
    /\ DOMAIN uFilters = {}
    /\ Sorts(uItems, uSort, "", sortItems(uItems, uSort))

\* the array a sortItems call returned is sorted once more, by another key
SortAgain ==
    /\ uOut # <<>>
    /\ uFrom = ""
    /\ DOMAIN uFilters = {}
    /\ \E sortValue \in SortValues :
          Sorts(uOut[1].result, sortValue, uSort, sortItems(uOut[1].result, sortValue))

InitUtilCalls ==
    /\ InitServer
    /\ ADMIN_KEY = Undef
    /\ InitValidator
    /\ InitOthers
    /\ InitFilterCall \/ InitSortCall

NextUtil == FilterCall \/ SortCall \/ SortAgain

SpecUtil == InitUtilCalls /\ [][NextUtil]_vars

----------------------------------------------------------------------------
(* Properties of the filter matcher and the sort comparator *)

Called(fn) == uOut # <<>> /\ uOut[1].fn = fn

\* s[c..d] is an atomic value of s: a slash-free stretch between two slashes
\* (or the ends of s) without the whitespace around it
IsAtomAt(s, c, d) ==
    /\ c <= d
    /\ CharAt(s, c) \notin Whitespace
    /\ CharAt(s, d) \notin Whitespace
    /\ \A k \in c..d : CharAt(s, k) # "/"
    /\ \E a \in 1..c :
          /\ a = 1 \/ CharAt(s, a - 1) = "/"
          /\ \A k \in a..(c - 1) : CharAt(s, k) \in Whitespace
    /\ \E b \in d..Len(s) :
          /\ b = Len(s) \/ CharAt(s, b + 1) = "/"
          /\ \A k \in (d + 1)..b : CharAt(s, k) \in Whitespace

AtomicValues(s) ==
    {SubSeq(s, c, d) : <<c, d>> \in {p \in (1..Len(s)) \X (1..Len(s)) : IsAtomAt(s, p[1], p[2])}}

MatchesDimension(item, dimension, filterValue) ==
    /\ item[dimension].t = "string"
    /\ item[dimension].s # ""
    /\ filterValue \in AtomicValues(item[dimension].s)

\* C13: filterItems returns, in their original order, exactly the items that
\* match every non-"all" dimension of the FilterState that has a field
\* accessor; an item matches a dimension iff its field value is non-empty and
\* the filter value is one of its slash-separated atomic values; a FilterState
\* of "all" only returns every item.
C13_FilterItems ==
    Called("filterItems") =>
        LET Matches(item) ==
                \A d \in DOMAIN uFilters :
                    (uFilters[d] # "all" /\ d \in uMapping) =>
                        MatchesDimension(item, d, uFilters[d])
        IN /\ uOut[1].result = SelectSeq(uItems, Matches)
           /\ (\A d \in DOMAIN uFilters : uFilters[d] = "all") => uOut[1].result = uItems

\* of an item of country "USA" and one of "US / UK", the filter country = "US"
\* returned the second only
C13_Witness ==
    /\ Called("filterItems")
    /\ uFilters["country"] = "US"
    /\ "country" \in uMapping
    /\ Len(uItems) = 2
    /\ uItems[1]["country"] = Str("USA")
    /\ uItems[2]["country"] = Str("US / UK")
    /\ uOut[1].result = <<uItems[2]>>

Count(items, x) == Cardinality({i \in 1..Len(items) : items[i] = x})

IsPermutation(a, b) ==
    /\ Len(a) = Len(b)
    /\ \A i \in 1..Len(a) : Count(a, a[i]) = Count(b, a[i])

\* the key of an item under a sort field, a missing value replaced
SortKey(item, field) ==
    CASE field = "added" -> OrElse(item["addedDate"], Str("1970-01-01"))
      [] field = "rating" -> OrElse(item["rating"], Num(0))
      [] field = "year" -> OrElse(item["year"], Num(0))
      [] field = "title" -> OrElse(item["title"], Str(""))

\* key x is not after key y: numbers by value, strings by locale order
KeyNotAfter(x, y) ==
    IF x.t = "string" THEN localeCompare(x.s, y.s) <= 0 ELSE x.n <= y.n

InOrder(items, field, direction) ==
    \A i \in 1..(Len(items) - 1) :
        IF direction = "asc"
        THEN KeyNotAfter(SortKey(items[i], field), SortKey(items[i + 1], field))
        ELSE KeyNotAfter(SortKey(items[i + 1], field), SortKey(items[i], field))

\* C14: for every valid sort value sortItems returns a permutation of its
\* input in which adjacent items are non-decreasing (asc) or non-increasing
\* (desc) in the field's key (rating and year as numbers, missing 0; title and
\* added date as strings, missing "" and "1970-01-01"), and leaves the input
\* array as it was.
C14_SortItems ==
    (Called("sortItems") /\ uSort \in ValidSortValues) =>
        /\ IsPermutation(uOut[1].result, uOut[1].input)
        /\ InOrder(uOut[1].result, SortFieldOf(uSort), SortDirectionOf(uSort))
        /\ uItems = uOut[1].input

Reverse(items) == [i \in 1..Len(items) |-> items[Len(items) + 1 - i]]

TitlesDistinct(items) ==
    \A i, j \in 1..Len(items) : i # j => items[i]["title"] # items[j]["title"]

\* C15: for items of pairwise distinct titles, the title-asc order sorted by
\* title-desc is exactly the reverse of the title-asc order.
C15_TitleRoundTrip ==
    (/\ Called("sortItems") /\ uFrom = "title-asc" /\ uSort = "title-desc"
     /\ TitlesDistinct(uOut[1].input)) =>
        uOut[1].result = Reverse(uOut[1].input)

\* C16 (the part on sortItems): a sort value that is no valid field-direction
\* pair, an unknown field or a known field with a missing or unrecognized
\* direction, leaves the order of the items exactly as it was.
C16_MalformedSortIsNoOp ==
    (Called("sortItems") /\ uSort \notin ValidSortValues) =>
        uOut[1].result = uOut[1].input

----------------------------------------------------------------------------
(* Overlapping requests.  handleRequest is an async function: it runs up to
   `await readJsonFile`, resumes with the array read, runs up to
   `await writeJsonFile`, and answers when the file is written.  Two handlers
   take these steps in any order. *)

Handlers == {1, 2}

\* the request gets as far as readJsonFile: it is authenticated and routed,
\* and a POST or PUT has a body that parsed and passed validateItem
readsFile(r, adminKey) ==
    /\ r.method # "OPTIONS"
    /\ isAuthenticated(r, adminKey)
    /\ Part(r.path, 1) = "api" /\ Part(r.path, 2) # ""
    /\ CASE r.method = "GET" -> TRUE
         [] r.method = "POST" \/ (r.method = "PUT" /\ Part(r.path, 3) # "") ->
               /\ r.body.json # "invalid"
               /\ LET validation == validateItem(Part(r.path, 2), r.body) IN
                  ~validation.threw /\ validation.isValid
         [] r.method = "DELETE" /\ Part(r.path, 3) # "" -> TRUE
         [] OTHER -> FALSE

\* the handler goes on to writeJsonFile
writesFile(r, out) ==
    r.method \in {"POST", "PUT", "DELETE"} /\ out.res.status \in {200, 201}

\* mutant: the array is read again when the file is written
dataToWrite_ReadAgain(h, fs) ==
    handleRequest(h.r, fs, ADMIN_KEY).files[Part(h.r.path, 2)]

\* writeJsonFile(type, data): data is the array the handler read and changed
dataToWrite(h, fs) == h.out.files[Part(h.r.path, 2)]

NoFiles == [t \in Types |-> <<>>]

NoOutcome == Reply(Response(0, ""), NoFiles)

Handler(pc, r, arrived, out, alone, after) ==
    [pc |-> pc, r |-> r, arrived |-> arrived, out |-> out, alone |-> alone,
     after |-> after]

IdleHandler == Handler("idle", NoRequest, NoFiles, NoOutcome, TRUE, NoFiles)

InFlight(h) == race[h].pc \in {"reading", "writing"}

BookOne == newItemOf("book-1", BasePayload)

RaceFiles == {NoFiles, [NoFiles EXCEPT !["books"] = <<BookOne>>]}

RaceRequests ==
    {Request("POST", <<"api", "books">>, Str(DefaultKey), JsonObject(BasePayload)),
     Request("POST", <<"api", "books">>, Str(DefaultKey), JsonObject(InvalidPayload)),
     Request("POST", <<"api", "music">>, Str(DefaultKey), JsonObject(BasePayload)),
     Request("PUT", <<"api", "books", "book-1">>, Str(DefaultKey), JsonObject(RatedPayload)),
     Request("DELETE", <<"api", "books", "book-1">>, Str(DefaultKey), JsonObject(EmptyObject)),
     Request("DELETE", <<"api", "books", "book-1">>, Undef, JsonObject(EmptyObject)),
     Request("GET", <<"api", "books">>, Undef, JsonObject(EmptyObject))}

\* Handler h takes the request r as far as its first await.  `early` is the
\* answer of a request that never reads a file.
Arrives(h, r, reads, early) ==
    /\ race' =
         [g \in Handlers |->
            IF g = h
            THEN Handler(IF reads THEN "reading" ELSE "done", r, files,
                         IF reads THEN NoOutcome ELSE early,
                         \A o \in Handlers \ {h} : ~InFlight(o), files)
            ELSE IF InFlight(g) THEN [race[g] EXCEPT !.alone = FALSE]
            ELSE race[g]]
    /\ UNCHANGED <<serverVars, lastWriter, validatorVars, utilVars, pageVars, securityVars>>

Arrive ==
    \E h \in Handlers : \E r \in RaceRequests :
        /\ race[h].pc = "idle"
        /\ Arrives(h, r, readsFile(r, ADMIN_KEY), handleRequest(r, files, ADMIN_KEY))

\* readJsonFile resolves; the handler runs on the array read, up to the write
\* or, when it has nothing to write, to its answer
ReadsAs(h, out) ==
    /\ race' =
         [race EXCEPT ![h].pc = IF writesFile(race[h].r, out) THEN "writing" ELSE "done",
                      ![h].out = out,
                      ![h].after = files]
    /\ UNCHANGED <<serverVars, lastWriter, validatorVars, utilVars, pageVars, securityVars>>

Read ==
    \E h \in Handlers :
        /\ race[h].pc = "reading"
        /\ ReadsAs(h, handleRequest(race[h].r, files, ADMIN_KEY))

\* writeJsonFile resolves and the handler answers
Write ==
    \E h \in Handlers :
        /\ race[h].pc = "writing"
        /\ files' = [files EXCEPT ![Part(race[h].r.path, 2)] = dataToWrite(race[h], files)]
        /\ race' = [race EXCEPT ![h].pc = "done", ![h].after = files']
        /\ lastWriter' = [lastWriter EXCEPT ![Part(race[h].r.path, 2)] = h]
        /\ UNCHANGED <<ADMIN_KEY, req, res, before, retired, validatorVars, utilVars, pageVars, securityVars>>

InitRace ==
    /\ ADMIN_KEY = Undef
    /\ files \in RaceFiles
    /\ req = NoRequest
    /\ res = Response(0, "")
    /\ before = NoFiles
    /\ retired = [t \in Types |-> {}]
    /\ InitValidator
    /\ InitUtil
    /\ InitNoPage
    /\ InitNoSecurity
    /\ race = [h \in Handlers |-> IdleHandler]
    /\ lastWriter = [t \in Types |-> 0]

NextRace == Arrive \/ Read \/ Write

SpecRace == InitRace /\ [][NextRace]_vars

Acknowledged(h) == race[h].pc = "done" /\ writesFile(race[h].r, race[h].out)

\* C17: overlapping writes to a category are not serialized.  A category file
\* always holds the array of the handler that wrote it last, which is the
\* array that handler had read with its own change applied, whatever other
\* handlers wrote in between; and a write acknowledged with 2xx that no other
\* request overlapped has its whole effect in the files right after it
\* completes.
C17_LastWriterWins ==
    /\ \A t \in Types :
          lastWriter[t] # 0 => files[t] = race[lastWriter[t]].out.files[t]
    /\ \A h \in Handlers :
          (Acknowledged(h) /\ race[h].alone) =>
              LET atomic == handleRequest(race[h].r, race[h].arrived, ADMIN_KEY) IN
              /\ race[h].out.res = atomic.res
              /\ race[h].after = atomic.files

\* two creates that overlapped were both answered 201 with the same id, and
\* the books file holds one new record only
C17_Witness ==
    /\ \A h \in Handlers :
          /\ race[h].pc = "done"
          /\ race[h].r.method = "POST"
          /\ race[h].out.res.status = 201
          /\ race[h].arrived = [NoFiles EXCEPT !["books"] = <<BookOne>>]
    /\ race[1].out.res.item["id"] = race[2].out.res.item["id"]
    /\ Len(files["books"]) = 2

----------------------------------------------------------------------------
(* src/scripts/filter-system.ts: the FilterSystem of a catalog page.  An item
   element is a record of its id, its data attributes (dataset; an absent
   attribute is "", which every read `dataset.x || ...` treats alike) and its
   style.display.  `page` holds the fields of the FilterSystem, the children
   of the items container in document order and the chips that are active. *)

Attributes == {"country", "genre", "status", "addedDate", "rating", "year", "title"}

\* dataset[name] || ""
DataOf(el, name) == IF name \in Attributes THEN el.dataset[name] ELSE ""

\* s.substring(0, 4)
FirstFour(s) == SubSeq(s, 1, IF Len(s) < 4 THEN Len(s) ELSE 4)

\* shouldShow of FilterSystem.filterItems for one item
shouldShow(itemEl, filters) ==
    \A filterType \in DOMAIN filters :
        LET filterValue == filters[filterType] IN
        \/ filterValue = "all"
        \/ IF filterType = "added"
           THEN FirstFour(DataOf(itemEl, "addedDate")) = filterValue
           ELSE StringIncludes(DataOf(itemEl, filterType), filterValue)

CountVisible(items) == Cardinality({i \in 1..Len(items) : items[i].display # "none"})

\* the text of the counter; its two Chinese labels ("total", "showing") are
\* written here in pinyin
StatsText(visibleCount, totalCount) ==
    IF visibleCount = totalCount THEN "gongji: " \o ToString(totalCount)
    ELSE "xianshi " \o ToString(visibleCount) \o " / " \o ToString(totalCount)

\* FilterSystem.updateStats
updateStats(p) ==
    IF ~p.statsDisplay.present THEN p
    ELSE [p EXCEPT !.statsDisplay.textContent = StatsText(CountVisible(p.items), p.totalCount)]

\* the forEach of FilterSystem.filterItems
withDisplay(items, filters) ==
    [i \in 1..Len(items) |->
        [items[i] EXCEPT !.display = IF shouldShow(items[i], filters) THEN "" ELSE "none"]]

\* FilterSystem.filterItems
pageFilterItems(p) == updateStats([p EXCEPT !.items = withDisplay(p.items, p.filters)])

\* parseFloat / parseInt of a data attribute: [nan, n]
parseNumber(s) ==
    IF s # "" /\ AllDigits(s) THEN [nan |-> FALSE, n |-> ParseDigits(s)]
    ELSE [nan |-> TRUE, n |-> 0]

\* x || dflt on strings
OrDefault(x, dflt) == IF x = "" THEN dflt ELSE x

\* the comparator of FilterSystem.sortItems; a NaN result counts as 0
compareElements(a, b, field, direction) ==
    LET result ==
          CASE field = "added" ->
                  localeCompare(OrDefault(a.dataset["addedDate"], "1970-01-01"),
                                OrDefault(b.dataset["addedDate"], "1970-01-01"))
            [] field = "rating" ->
                  LET aVal == parseNumber(OrDefault(a.dataset["rating"], "0"))
                      bVal == parseNumber(OrDefault(b.dataset["rating"], "0"))
                  IN IF aVal.nan \/ bVal.nan THEN 0 ELSE aVal.n - bVal.n
            [] field = "year" ->
                  LET aVal == parseNumber(OrDefault(a.dataset["year"], "0"))
                      bVal == parseNumber(OrDefault(b.dataset["year"], "0"))
                  IN IF aVal.nan \/ bVal.nan THEN 0 ELSE aVal.n - bVal.n
            [] field = "title" ->
                  localeCompare(toLowerCase(a.dataset["title"]), toLowerCase(b.dataset["title"]))
            [] OTHER -> localeCompare("", "")
    IN IF direction = "desc" THEN 0 - result ELSE result

RECURSIVE insertElement(_, _, _, _)
insertElement(sorted, x, field, direction) ==
    IF sorted = <<>> THEN <<x>>
    ELSE IF compareElements(Head(sorted), x, field, direction) > 0 THEN <<x>> \o sorted
    ELSE <<Head(sorted)>> \o insertElement(Tail(sorted), x, field, direction)

\* this.items.sort(comparator)
RECURSIVE sortElements(_, _, _)
sortElements(items, field, direction) ==
    IF items = <<>> THEN <<>>
    ELSE insertElement(sortElements(SubSeq(items, 1, Len(items) - 1), field, direction),
                       items[Len(items)], field, direction)

IdsOf(items) == [i \in 1..Len(items) |-> items[i].id]

\* the array sorted in place, and each item appended to the container in turn
sortedInto(p, sorted) ==
    [p EXCEPT !.items = sorted, !.itemsContainer.children = IdsOf(sorted)]

\* FilterSystem.sortItems
pageSortItems(p) ==
    IF ~p.itemsContainer.present THEN p
    ELSE sortedInto(p, sortElements(p.items, SortFieldOf(p.currentSort),
                                    SortDirectionOf(p.currentSort)))

\* the click listener of a chip <type, value>; type "" is a chip without
\* data-filter-type
onChipClick(p, type, value) ==
    IF type = "" THEN p
    ELSE pageFilterItems(
            [p EXCEPT !.activeChips = {c \in @ : c[1] # type} \cup {<<type, value>>},
                      !.filters = [t \in DOMAIN @ \cup {type} |->
                                      IF t = type THEN (IF value = "" THEN "all" ELSE value)
                                      ELSE @[t]]])

\* mutant: the status is stored and the items are not filtered again
onStatusFilterChange_Stored(p, status) ==
    [p EXCEPT !.filters = [t \in DOMAIN @ \cup {"status"} |->
                              IF t = "status" THEN status ELSE @[t]]]

\* the listener of "status-filter-change"
onStatusFilterChange(p, status) ==
    pageFilterItems(
        [p EXCEPT !.filters = [t \in DOMAIN @ \cup {"status"} |->
                                  IF t = "status" THEN status ELSE @[t]]])

\* mutant: the sort handler shows every item again
onSortChange_ShowsAll(p, sort) ==
    LET q == pageSortItems([p EXCEPT !.currentSort = sort]) IN
    [q EXCEPT !.items = [i \in 1..Len(@) |-> [@[i] EXCEPT !.display = ""]]]

\* the listener of "sort-change"
onSortChange(p, sort) == pageSortItems([p EXCEPT !.currentSort = sort])

\* new FilterSystem(config) and init() on a document that holds `elements`
initPage(filterTypes, elements, hasContainer, hasStats) ==
    updateStats(
        [filters |-> [t \in filterTypes |-> "all"],
         currentSort |-> "added-desc",
         items |-> elements,
         itemsContainer |-> [present |-> hasContainer, children |-> IdsOf(elements)],
         statsDisplay |-> [present |-> hasStats, textContent |-> ""],
         totalCount |-> Len(elements),
         activeChips |-> {<<t, "all">> : t \in filterTypes}])

----------------------------------------------------------------------------
(* A catalog page under its events *)

MaxCards == 3   \* item elements on the page

Element(id, country, genre, status, addedDate, rating, year, title) ==
    [id |-> id,
     dataset |-> [a \in Attributes |->
                    CASE a = "country" -> country [] a = "genre" -> genre
                      [] a = "status" -> status [] a = "addedDate" -> addedDate
                      [] a = "rating" -> rating [] a = "year" -> year
                      [] a = "title" -> title],
     display |-> ""]

ElementPool ==
    {Element("e1", "US / UK", "b", "completed", "2023-05-01", "7", "1999", "b"),
     Element("e2", "USA", "", "reading", "2024-01-15", "", "2005", "B"),
     Element("e3", "UK", "a /b", "completed", "", "10", "", "a")}

\* the items of a page are distinct elements
Documents ==
    {d \in SeqsUpTo(ElementPool, MaxCards) :
        \A i, j \in 1..Len(d) : i # j => d[i] # d[j]}

FilterTypes == {"country", "added", "status"}

Chips ==
    {<<"country", "US">>, <<"country", "UK">>, <<"country", "">>,
     <<"added", "all">>, <<"added", "2023">>, <<"added", "2024">>, <<"", "US">>}

\* a detail without status: filters.status is undefined, which is not "all"
\* and which includes() reads as the text "undefined"
MissingStatus == "undefined"

Statuses == {"all", "reading", "", MissingStatus}

PageSortValues ==
    {"added-desc", "title-asc", "title-desc", "rating-desc", "year-asc", "size-asc", "title"}

NoEvent == [kind |-> "", type |-> "", value |-> ""]
Event(kind, type, value) == [kind |-> kind, type |-> type, value |-> value]

Settled == pageEvent = NoEvent

\* an event is handled in one turn: `next` is the page its listener leaves
Handles(event, next) ==
    /\ Settled
    /\ page' = next
    /\ pageEvent' = event
    /\ pagePrev' = page
    /\ UNCHANGED <<serverVars, validatorVars, utilVars, raceVars, pageLoaded, securityVars>>

ChipClick ==
    \E chip \in Chips :
        Handles(Event("click", chip[1], chip[2]), onChipClick(page, chip[1], chip[2]))

StatusFilterChange ==
    \E status \in Statuses :
        Handles(Event("status-filter-change", "status", status),
                onStatusFilterChange(page, status))

SortChange ==
    \E sort \in PageSortValues :
        Handles(Event("sort-change", "", sort), onSortChange(page, sort))

\* the turn is over; the page waits for the next event
Settle ==
    /\ ~Settled
    /\ pageEvent' = NoEvent
    /\ pagePrev' = page
    /\ UNCHANGED <<serverVars, validatorVars, utilVars, raceVars, page, pageLoaded, securityVars>>

Loads(p) ==
    /\ page = p
    /\ pagePrev = p
    /\ pageLoaded = p.items
    /\ pageEvent = NoEvent

InitPage ==
    /\ InitServer
    /\ ADMIN_KEY = Undef
    /\ InitValidator
    /\ InitUtil
    /\ InitNoRace
    /\ InitNoSecurity
    /\ \E elements \in Documents :
          \E dom \in {<<TRUE, TRUE>>, <<FALSE, TRUE>>, <<TRUE, FALSE>>} :
              Loads(initPage(FilterTypes, elements, dom[1], dom[2]))

NextPage == ChipClick \/ StatusFilterChange \/ SortChange \/ Settle

SpecPage == InitPage /\ [][NextPage]_vars

----------------------------------------------------------------------------
(* Properties of the FilterSystem *)

Visible(el) == el.display # "none"

\* the Filter Matcher's verdict on an element under a FilterState
MatcherShows(el, filters) ==
    \A d \in DOMAIN filters :
        \/ filters[d] = "all"
        \/ IF d = "added"
           THEN FirstFour(DataOf(el, "addedDate")) = filters[d]
           ELSE matchesFilter(Str(DataOf(el, d)), filters[d], "contains")

\* C18: after chip activations the visible items are exactly those that match
\* every non-"all" dimension by equality with one slash-separated atomic value
\* of the item's field (for "added": with the first 4 characters of the added
\* date); an item whose field lacks V as an atomic value is hidden when the
\* dimension is set to V.
C18_VisibleByMatcher ==
    (pageEvent.kind = "click" /\ pageEvent.type # "" /\ page.filters["status"] = "all") =>
        \A i \in 1..Len(page.items) :
            Visible(page.items[i]) <=> MatcherShows(page.items[i], page.filters)

\* C19: after every handled event each item's visibility is the result of
\* testing it against the current FilterState, the counter shows the number
\* of visible items against a total that is the number of items loaded at
\* init, and the items are a permutation of the items loaded at init.
C19_PageConsistent ==
    /\ \A i \in 1..Len(page.items) :
          Visible(page.items[i]) <=> shouldShow(page.items[i], page.filters)
    /\ page.totalCount = Len(pageLoaded)
    /\ page.statsDisplay.present =>
          page.statsDisplay.textContent =
              StatsText(CountVisible(page.items), Len(pageLoaded))
    /\ IsPermutation(IdsOf(page.items), IdsOf(pageLoaded))

\* of three items loaded, the status filter "reading" left one visible and the
\* counter says so
C19_Witness ==
    /\ pageEvent = Event("status-filter-change", "status", "reading")
    /\ Len(pageLoaded) = 3
    /\ CountVisible(page.items) = 1
    /\ CountVisible(pagePrev.items) > 1
    /\ page.statsDisplay.textContent = "xianshi 1 / 3"

DisplayOf(items, id) == {items[i].display : i \in {j \in 1..Len(items) : items[j].id = id}}

\* C20: a sort-change event reorders the items, visible and hidden together,
\* and changes nothing else: every item's visibility, the FilterState and the
\* counter are as before; a chip activation or a status change leaves the
\* order of the items and the current sort key as they were.
C20_SortAndFilterFrames ==
    /\ pageEvent.kind = "sort-change" =>
          /\ IsPermutation(IdsOf(page.items), IdsOf(pagePrev.items))
          /\ \A i \in 1..Len(page.items) :
                DisplayOf(pagePrev.items, page.items[i].id) = {page.items[i].display}
          /\ page.filters = pagePrev.filters
          /\ page.statsDisplay = pagePrev.statsDisplay
          /\ page.totalCount = pagePrev.totalCount
    /\ pageEvent.kind \in {"click", "status-filter-change"} =>
          /\ IdsOf(page.items) = IdsOf(pagePrev.items)
          /\ page.itemsContainer = pagePrev.itemsContainer
          /\ page.currentSort = pagePrev.currentSort

\* a sort by rating moved a hidden item from the first place to the last, and
\* it stayed hidden
C20_Witness ==
    /\ pageEvent = Event("sort-change", "", "rating-desc")
    /\ Len(page.items) = 3
    /\ ~Visible(pagePrev.items[1])
    /\ page.items[3] = pagePrev.items[1]
    /\ CountVisible(page.items) = 2

\* the data-value of the status chip that stands for the signal's value
ChipValueFor(status) == IF status = MissingStatus THEN "" ELSE status

\* C21: a status-change signal carrying V leaves the FilterState, the
\* visibility of every item and the counter as a chip activation for "status"
\* with value V would, also for an empty or missing V.
C21_StatusLikeChip ==
    pageEvent.kind = "status-filter-change" =>
        LET chip == onChipClick(pagePrev, "status", ChipValueFor(pageEvent.value)) IN
        /\ page.filters = chip.filters
        /\ page.items = chip.items
        /\ page.statsDisplay = chip.statsDisplay

----------------------------------------------------------------------------
(* src/utils/security.ts: the rate limiter.  `limiter` is the closure of
   createRateLimiter: its two arguments and its `requests` array. *)

\* createRateLimiter(maxRequests, windowMs)
createRateLimiter(maxRequests, windowMs) ==
    [maxRequests |-> maxRequests, windowMs |-> windowMs, requests |-> <<>>]

\* mutant: a request exactly windowMs old still counts
canProceed_KeepsBoundary(l, now) ==
    LET InWindow(time) == now - time <= l.windowMs
        kept == SelectSeq(l.requests, InWindow)
    IN IF Len(kept) < l.maxRequests
       THEN [limiter |-> [l EXCEPT !.requests = Append(kept, now)], returned |-> TRUE]
       ELSE [limiter |-> [l EXCEPT !.requests = kept], returned |-> FALSE]

\* canProceed() at time `now`: the limiter it leaves and what it returns
canProceed(l, now) ==
    LET InWindow(time) == now - time < l.windowMs
        kept == SelectSeq(l.requests, InWindow)
    IN IF Len(kept) < l.maxRequests
       THEN [limiter |-> [l EXCEPT !.requests = Append(kept, now)], returned |-> TRUE]
       ELSE [limiter |-> [l EXCEPT !.requests = kept], returned |-> FALSE]

MaxClock == 6    \* the clock runs from 0 to MaxClock
MaxGrants == 4   \* calls that return true in one run
MaxLimit == 2    \* largest maxRequests
MaxWindow == 3   \* largest windowMs

Call(made, at, returned, requestsBefore, grantsBefore) ==
    [made |-> made, at |-> at, returned |-> returned, before |-> requestsBefore,
     grants |-> grantsBefore]

NoCall == Call(FALSE, 0, FALSE, <<>>, 0)

Proceeds(out) ==
    /\ limiter' = out.limiter
    /\ lastCall' = Call(TRUE, clock, out.returned, limiter.requests, Len(granted))
    /\ granted' = IF out.returned THEN Append(granted, clock) ELSE granted
    /\ UNCHANGED <<serverVars, validatorVars, utilVars, pageVars, raceVars, clock, html>>

\* canProceed() is called
CanProceed ==
    /\ Len(granted) < MaxGrants
    /\ Proceeds(canProceed(limiter, clock))

\* time passes
Tick ==
    /\ \E later \in (clock + 1)..MaxClock : clock' = later
    /\ UNCHANGED <<serverVars, validatorVars, utilVars, pageVars, raceVars>>
    /\ UNCHANGED <<limiter, granted, lastCall, html>>

InitLimiter ==
    /\ InitServer
    /\ ADMIN_KEY = Undef
    /\ InitValidator
    /\ InitUtil
    /\ InitNoPage
    /\ InitNoRace
    /\ \E maxRequests \in 0..MaxLimit : \E windowMs \in 0..MaxWindow :
          limiter = createRateLimiter(maxRequests, windowMs)
    /\ clock = 0
    /\ granted = <<>>
    /\ lastCall = NoCall
    /\ html = <<>>

NextLimiter == CanProceed \/ Tick

SpecLimiter == InitLimiter /\ [][NextLimiter]_vars

\* the grants whose timestamp lies within the last windowMs
RecentGrants == {i \in 1..Len(granted) : clock - granted[i] < limiter.windowMs}

\* C22: with a non-decreasing clock, at most maxRequests of the calls that
\* returned true have a timestamp within the last windowMs; a call that
\* returns false records nothing; and a call made once at least windowMs has
\* passed since the oldest recorded grant returns true when maxRequests >= 1.
C22_RateLimiter ==
    /\ Cardinality(RecentGrants) <= limiter.maxRequests
    /\ (lastCall.made /\ ~lastCall.returned) =>
          /\ Len(granted) = lastCall.grants
          /\ Len(limiter.requests) <= Len(lastCall.before)
          /\ \A i \in 1..Len(limiter.requests) :
                \E j \in 1..Len(lastCall.before) : limiter.requests[i] = lastCall.before[j]
    /\ (/\ lastCall.made /\ limiter.maxRequests >= 1 /\ lastCall.before # <<>>
        /\ lastCall.at - lastCall.before[1] >= limiter.windowMs) =>
          lastCall.returned

\* the limiter was full; a call made exactly windowMs after its oldest grant
\* returned true
C22_Witness ==
    /\ lastCall.made
    /\ lastCall.returned
    /\ limiter.maxRequests = 2
    /\ limiter.windowMs = 3
    /\ Len(lastCall.before) = 2
    /\ lastCall.at - lastCall.before[1] = 3
    /\ Len(granted) = 3

----------------------------------------------------------------------------
(* src/utils/security.ts: escapeHtml and decodeHtmlEntities *)

\* str.replace(/pattern/g, replacement) from index i on: left to right,
\* matches do not overlap and the replacement is not searched again
RECURSIVE ReplaceFrom(_, _, _, _)
ReplaceFrom(str, i, pattern, replacement) ==
    IF i > Len(str) THEN ""
    ELSE IF i + Len(pattern) - 1 <= Len(str) /\ SubSeq(str, i, i + Len(pattern) - 1) = pattern
         THEN replacement \o ReplaceFrom(str, i + Len(pattern), pattern, replacement)
         ELSE CharAt(str, i) \o ReplaceFrom(str, i + 1, pattern, replacement)

replace(str, pattern, replacement) == ReplaceFrom(str, 1, pattern, replacement)

DigitOf(k) ==
    CASE k = 0 -> "0" [] k = 1 -> "1" [] k = 2 -> "2" [] k = 3 -> "3" [] k = 4 -> "4"
      [] k = 5 -> "5" [] k = 6 -> "6" [] k = 7 -> "7" [] k = 8 -> "8" [] k = 9 -> "9"

RECURSIVE DigitString(_)
DigitString(k) == IF k < 10 THEN DigitOf(k) ELSE DigitString(k \div 10) \o DigitOf(k % 10)

\* String(str) for a string or a natural number
String(v) == IF v.t = "string" THEN v.s ELSE DigitString(v.n)

\* escapeHtml(str)
escapeHtml(str) ==
    IF str.t \in {"undefined", "null"} THEN ""
    ELSE replace(replace(replace(replace(replace(String(str),
            "&", "&amp;"), "<", "&lt;"), ">", "&gt;"), "\"", "&quot;"), "'", "&#39;")

\* mutant: the ampersand entity is decoded last
decodeHtmlEntities_AmpLast(str) ==
    replace(replace(replace(replace(replace(str,
        "&lt;", "<"), "&gt;", ">"), "&quot;", "\""), "&#39;", "'"), "&amp;", "&")

\* decodeHtmlEntities(str)
decodeHtmlEntities(str) ==
    replace(replace(replace(replace(replace(str,
        "&amp;", "&"), "&lt;", "<"), "&gt;", ">"), "&quot;", "\""), "&#39;", "'")

MaxPieces == 3   \* pieces an input text is put together from

\* the pieces: the five escaped characters, a letter, and entity tails
TextPieces == {"&", "<", ">", "\"", "'", "a", "lt;", "gt;", "amp;", "quot;", "#39;"}

RECURSIVE Concat(_)
Concat(pieces) == IF pieces = <<>> THEN "" ELSE Head(pieces) \o Concat(Tail(pieces))

Texts == {Concat(pieces) : pieces \in SeqsUpTo(TextPieces, MaxPieces)}

HtmlInputs == {Str(text) : text \in Texts} \cup {Undef, Null, Num(0), Num(39)}

Html(stage, input, escaped, decoded) ==
    [stage |-> stage, input |-> input, escaped |-> escaped, decoded |-> decoded]

\* escapeHtml(input) is called
Escape ==
    /\ html.stage = "input"
    /\ html' = Html("escaped", html.input, escapeHtml(html.input), "")
    /\ UNCHANGED <<serverVars, validatorVars, utilVars, pageVars, raceVars>>
    /\ UNCHANGED <<limiter, clock, granted, lastCall>>

\* decodeHtmlEntities is called on the escaped text
Decode ==
    /\ html.stage = "escaped"
    /\ html' = Html("decoded", html.input, html.escaped, decodeHtmlEntities(html.escaped))
    /\ UNCHANGED <<serverVars, validatorVars, utilVars, pageVars, raceVars>>
    /\ UNCHANGED <<limiter, clock, granted, lastCall>>

InitHtml ==
    /\ InitServer
    /\ ADMIN_KEY = Undef
    /\ InitValidator
    /\ InitUtil
    /\ InitNoPage
    /\ InitNoRace
    /\ limiter = <<>>
    /\ clock = 0
    /\ granted = <<>>
    /\ lastCall = <<>>
    /\ \E input \in HtmlInputs : html = Html("input", input, "", "")

NextHtml == Escape \/ Decode

SpecHtml == InitHtml /\ [][NextHtml]_vars

\* C23: decodeHtmlEntities inverts escapeHtml: for every string s,
\* decodeHtmlEntities(escapeHtml(s)) equals s, including strings that already
\* contain entity-like text such as "&lt;" or "&amp;quot;".
C23_DecodeInvertsEscape ==
    (html.stage = "decoded" /\ html.input.t = "string") => html.decoded = html.input.s

====
